---- MODULE Spec2Model ----
(***************************************************************************)
(* A model of the CRUD API service of src/index.ts: an Express application *)
(* over a SQLite store with username/password registration, JWT login and  *)
(* a token gate in front of the items, users and profile routes.           *)
(*                                                                         *)
(* Every request is a task of the Node event loop.  A handler runs without *)
(* interruption between two awaits, so each action below is one such run:  *)
(* the code from one await (or from the arrival of the request) up to and  *)
(* including the store statement of the next await.                        *)
(***************************************************************************)
EXTENDS Integers, Sequences, FiniteSets, TLC

VARIABLES
    users,      \* the rows of table "users", in insertion order
    items,      \* the rows of table "items", in insertion order
    itemSeq,    \* the last id the store assigned in table "items"
    reqs,       \* the requests: their inputs, position and response
    issued,     \* the tokens login handed out, which clients hold
    now,        \* the clock, in seconds
    ticks,      \* how often the clock advanced
    secret,     \* process.env.JWT_SECRET
    alive       \* whether the process is still running

vars == <<users, items, itemSeq, reqs, issued, now, ticks, secret, alive>>

----------------------------------------------------------------------------
(* Bounds of the model *)

MaxReqs == 2
MaxTicks == 1
MaxSalt == 2
MaxItemId == 2

ReqIds == 1..MaxReqs
Salts == 1..MaxSalt
ItemIds == 1..MaxItemId

(* Constants of the program *)

MinUsernameLen == 1
MinPasswordLen == 6
MinNameLen == 1
Hour == 3600

----------------------------------------------------------------------------
(* Values *)

Undefined == [kind |-> "undefined"]
Str(s) == [kind |-> "string", val |-> s]
IsString(v) == v.kind = "string"

ServerSecret == Str("server-secret")
AttackerSecret == Str("attacker-guess")

(* The bodies clients send to /register and /login *)
UserBodies ==
    { [username |-> Str("alice"), password |-> Str("secret1")],
      [username |-> Str("alice"), password |-> Str("hunter22")],
      [username |-> Str("bob"),   password |-> Str("secret1")],
      [username |-> Str(""),      password |-> Str("secret1")],
      [username |-> Str("alice"), password |-> Str("12345")],
      [username |-> Undefined,    password |-> Undefined] }

(* The bodies clients send to POST /items and PUT /items/:id *)
ItemBodies ==
    { [name |-> Str("pen"), description |-> Str("blue")],
      [name |-> Str("cup"), description |-> Undefined],
      [name |-> Str(""),    description |-> Str("blue")],
      [name |-> Undefined,  description |-> Undefined] }

----------------------------------------------------------------------------
(* DTO validation (zod) *)

\* z.string().min(n)
StringMin(v, n) == IsString(v) /\ Len(v.val) >= n

\* z.string().optional()
StringOptional(v) == IsString(v) \/ v = Undefined

\* Mutant: z.string() without the minimum lengths
userSchemaNoMin(body) ==
    [ success |-> body.username.kind = "string" /\ body.password.kind = "string",
      data |-> body ]

\* userSchema.safeParse(body)
userSchema(body) ==
    [ success |-> StringMin(body.username, MinUsernameLen)
                    /\ StringMin(body.password, MinPasswordLen),
      data |-> body ]

\* itemSchema.safeParse(body)
itemSchema(body) ==
    [ success |-> StringMin(body.name, MinNameLen)
                    /\ StringOptional(body.description),
      data |-> body ]

----------------------------------------------------------------------------
(* Password hashing (bcryptjs): the digest embeds the salt of the call *)

bcryptHash(password, salt) == [salt |-> salt, digest |-> <<salt, password>>]

\* bcrypt.compare(password, hash): recompute with the embedded salt
bcryptCompare(password, hash) == bcryptHash(password, hash.salt) = hash

----------------------------------------------------------------------------
(* Session tokens (jsonwebtoken, HS256) *)

\* The signature of a payload under a key
HS256(payload, key) == [key |-> key, over |-> payload]

\* Mutant: the payload is built from a property the user row does not have,
\* so the token carries no user id
jwtSignNoId(userId, username, key, t) ==
    LET payload == [ userId |-> 0, username |-> username,
                     iat |-> t, exp |-> t + Hour ]
    IN [kind |-> "jwt", payload |-> payload, sig |-> [key |-> key, over |-> payload]]

\* Mutant: expiresIn: "2h"
jwtSignTwoHours(userId, username, key, t) ==
    LET payload == [ userId |-> userId, username |-> username,
                     iat |-> t, exp |-> t + Hour + Hour ]
    IN [kind |-> "jwt", payload |-> payload, sig |-> [key |-> key, over |-> payload]]

\* jwt.sign({ userId, username }, key, { expiresIn: "1h" }) at time t
jwtSign(userId, username, key, t) ==
    LET payload == [ userId |-> userId, username |-> username,
                     iat |-> t, exp |-> t + Hour ]
    IN [kind |-> "jwt", payload |-> payload, sig |-> HS256(payload, key)]

\* What clients present that is no token at all
Empty == [kind |-> "empty"]
Garbage == [kind |-> "garbage"]

\* Mutant: jwt.decode in place of jwt.verify, the signature is not checked
jwtDecodeOnly(token, key, t) ==
    IF token.kind # "jwt"
    THEN [err |-> "JsonWebTokenError: jwt malformed", user |-> Undefined]
    ELSE IF t >= token.payload.exp
    THEN [err |-> "TokenExpiredError: jwt expired", user |-> Undefined]
    ELSE [err |-> "", user |-> token.payload]

\* Mutant: the expiry is looked at before the signature
jwtVerifyExpiryFirst(token, key, t) ==
    IF token.kind # "jwt"
    THEN [err |-> "JsonWebTokenError: jwt malformed", user |-> Undefined]
    ELSE IF key = Undefined
    THEN [err |-> "JsonWebTokenError: secret or public key must be provided",
          user |-> Undefined]
    ELSE IF t >= token.payload.exp
    THEN [err |-> "TokenExpiredError: jwt expired", user |-> Undefined]
    ELSE IF token.sig # [key |-> key, over |-> token.payload]
    THEN [err |-> "JsonWebTokenError: invalid signature", user |-> Undefined]
    ELSE [err |-> "", user |-> token.payload]

\* jwt.verify(token, key, callback) at time t: the callback's (err, user)
jwtVerify(token, key, t) ==
    IF token.kind # "jwt"
    THEN [err |-> "JsonWebTokenError: jwt malformed", user |-> Undefined]
    ELSE IF key = Undefined
    THEN [err |-> "JsonWebTokenError: secret or public key must be provided",
          user |-> Undefined]
    ELSE IF token.sig # HS256(token.payload, key)
    THEN [err |-> "JsonWebTokenError: invalid signature", user |-> Undefined]
    ELSE IF t >= token.payload.exp
    THEN [err |-> "TokenExpiredError: jwt expired", user |-> Undefined]
    ELSE [err |-> "", user |-> token.payload]

\* An Authorization header: a scheme prefix and the credentials after it
HeaderValue(scheme, cred) == [kind |-> "string", scheme |-> scheme, cred |-> cred]

\* req.header("Authorization")?.replace("Bearer ", "")
BearerToken(header) ==
    IF header = Undefined THEN Undefined ELSE header.cred

\* Mutant: token === undefined in place of !token
FalsyUndefinedOnly(token) == token = Undefined

\* !token
Falsy(token) == token = Undefined \/ token = Empty

----------------------------------------------------------------------------
(* The users table *)

RECURSIVE MaxId(_)
MaxId(rows) ==
    IF rows = <<>> THEN 0
    ELSE LET m == MaxId(Tail(rows))
         IN IF Head(rows).id > m THEN Head(rows).id ELSE m

\* Mutant: the lookup finds no row
FindNoUserByUsername(username) == Undefined

\* db("users").where({ username }).first()
FindUserByUsername(username) ==
    LET hits == SelectSeq(users, LAMBDA u : u.username = username)
    IN IF hits = <<>> THEN Undefined ELSE Head(hits)

\* Mutant: the lookup by id finds no row
FindNoUserById(id) == Undefined

\* db("users").where({ id }).first()
FindUserById(id) ==
    LET hits == SelectSeq(users, LAMBDA u : u.id = id)
    IN IF hits = <<>> THEN Undefined ELSE Head(hits)

\* Mutant: the username column without unique()
NoUniqueViolation(username) == FALSE

\* table.string("username").unique(): what the store refuses to insert
UniqueViolation(username) ==
    \E i \in 1..Len(users) : users[i].username = username

\* Mutant: the insert renumbers the table, the new row comes first
InsertUserRenumbering(username, hashedPassword) ==
    [ i \in 1..(Len(users) + 1) |->
        IF i = 1
        THEN [id |-> 1, username |-> username, password |-> hashedPassword]
        ELSE [users[i - 1] EXCEPT !.id = i] ]

\* table.increments("id").primary() and the row db("users").insert() adds
InsertUser(username, hashedPassword) ==
    Append(users, [ id |-> MaxId(users) + 1,
                    username |-> username,
                    password |-> hashedPassword ])

----------------------------------------------------------------------------
(* The items table *)

Null == [kind |-> "null"]

\* useNullAsDefault: a column left undefined is stored as NULL
NullAsDefault(v) == IF v = Undefined THEN Null ELSE v

\* db("items").where({ id }).first()
FindItem(id) ==
    LET hits == SelectSeq(items, LAMBDA it : it.id = id)
    IN IF hits = <<>> THEN Undefined ELSE Head(hits)

\* the row db("items").insert({ name, description }) adds, with the next id
InsertItem(name, description) ==
    Append(items, [ id |-> itemSeq + 1, name |-> name,
                    description |-> NullAsDefault(description) ])

\* db("items").where({ id }).update({ name, description }): a column whose
\* new value is undefined is left out of the statement
UpdateItem(id, name, description) ==
    [ i \in 1..Len(items) |->
        IF items[i].id = id
        THEN [ items[i] EXCEPT !.name = name,
                               !.description = IF description = Undefined
                                               THEN @ ELSE description ]
        ELSE items[i] ]

\* db("items").where({ id }).del()
DeleteItemRows(id) == SelectSeq(items, LAMBDA it : it.id # id)

----------------------------------------------------------------------------
(* Requests and responses *)

NoResponse == [status |-> 0, body |-> [none |-> TRUE]]
Response(status, body) == [status |-> status, body |-> body]
Message(m) == [message |-> m]
ValidationErrors == [errors |-> "format"]

\* The ids of the requests whose handler has ended
Ended == { q \in ReqIds : reqs[q].pc \in {"done", "failed"} }

(* A request: what the client sent (route, body, header, param), where its *)
(* handler stands (pc), req.user, the handler's local (the row it looked   *)
(* up or the hash it computed), the error of jwt.verify (err) and the      *)
(* response.  No handler reads `after`: it records which requests had      *)
(* ended when the request arrived.                                         *)
IdleReq ==
    [ pc |-> "idle", route |-> "", body |-> Undefined, header |-> Undefined,
      param |-> 0, user |-> Undefined, local |-> Undefined, err |-> "",
      res |-> NoResponse, after |-> {} ]

\* A request as it arrives
Request(route, body, header, id) ==
    [IdleReq EXCEPT !.pc = "received", !.route = route, !.body = body,
                    !.header = header, !.param = id]

\* A request whose handler sent its response and returned
Responded(req, status, body) ==
    [req EXCEPT !.pc = "done", !.res = Response(status, body)]

\* The handler sent its response and returned
Respond(r, status, body) ==
    reqs' = [reqs EXCEPT ![r].pc = "done", ![r].res = Response(status, body)]

\* Slots are taken in order: the requests differ by their inputs only
Fresh(r) ==
    /\ reqs[r].pc = "idle"
    /\ IF r = 1 THEN TRUE ELSE reqs[r - 1].pc # "idle"

\* Mutant: the handler swallows the error of the insert and answers 201
RejectedAnswered201(r) ==
    /\ reqs' = [reqs EXCEPT ![r].pc = "done",
                            ![r].res = [status |-> 201,
                                        body |-> [message |-> "User registered successfully"]]]
    /\ alive' = alive

(* An async handler whose promise rejects.  No handler catches anything    *)
(* and no error middleware is installed, so what happens is up to the      *)
(* framework and the runtime: Express 5 forwards the rejection to its      *)
(* default error handler (500); Express 4 leaves the request unanswered    *)
(* and Node either only warns or ends the process on the unhandled         *)
(* rejection.                                                              *)
Rejected(r) ==
    \/ /\ reqs' = [reqs EXCEPT ![r].pc = "failed",
                               ![r].res = Response(500, Message("Internal Server Error"))]
       /\ alive' = alive
    \/ /\ reqs' = [reqs EXCEPT ![r].pc = "failed"]
       /\ alive' = alive
    \/ /\ reqs' = [reqs EXCEPT ![r].pc = "failed"]
       /\ alive' = FALSE

----------------------------------------------------------------------------
(* POST /register *)

\* userSchema.safeParse and the 400 of a failed validation
RegisterValidate(r) ==
    /\ alive
    /\ Fresh(r)
    /\ \E body \in UserBodies :
          LET req == [Request("POST /register", body, Undefined, 0) EXCEPT !.after = Ended]
              parsed == userSchema(body)
          IN IF ~parsed.success
             THEN reqs' = [reqs EXCEPT ![r] = Responded(req, 400, ValidationErrors)]
             ELSE reqs' = [reqs EXCEPT ![r] = [req EXCEPT !.pc = "register_lookup"]]
    /\ UNCHANGED <<users, items, itemSeq, issued, now, ticks, secret, alive>>

\* the lookup of the username and the 400 of a taken one
RegisterLookup(r) ==
    /\ alive
    /\ reqs[r].pc = "register_lookup"
    /\ LET userExists == FindUserByUsername(reqs[r].body.username.val)
       IN IF userExists # Undefined
          THEN Respond(r, 400, Message("Username already taken"))
          ELSE reqs' = [reqs EXCEPT ![r].pc = "register_hash"]
    /\ UNCHANGED <<users, items, itemSeq, issued, now, ticks, secret, alive>>

\* bcrypt.hash(password, 10)
RegisterHash(r) ==
    /\ alive
    /\ reqs[r].pc = "register_hash"
    /\ \E salt \in Salts :
          reqs' = [reqs EXCEPT
                     ![r].pc = "register_insert",
                     ![r].local = bcryptHash(reqs[r].body.password.val, salt)]
    /\ UNCHANGED <<users, items, itemSeq, issued, now, ticks, secret, alive>>

\* the insert, which the store refuses for a username it holds, and the 201
RegisterInsert(r) ==
    /\ alive
    /\ reqs[r].pc = "register_insert"
    /\ LET username == reqs[r].body.username.val
       IN IF UniqueViolation(username)
          THEN /\ Rejected(r)
               /\ users' = users
          ELSE /\ users' = InsertUser(username, reqs[r].local)
               /\ Respond(r, 201, Message("User registered successfully"))
               /\ alive' = alive
    /\ UNCHANGED <<items, itemSeq, issued, now, ticks, secret>>

----------------------------------------------------------------------------
(* POST /login *)

\* userSchema.safeParse and the 400 of a failed validation
LoginValidate(r) ==
    /\ alive
    /\ Fresh(r)
    /\ \E body \in UserBodies :
          LET req == [Request("POST /login", body, Undefined, 0) EXCEPT !.after = Ended]
              parsed == userSchema(body)
          IN IF ~parsed.success
             THEN reqs' = [reqs EXCEPT ![r] = Responded(req, 400, ValidationErrors)]
             ELSE reqs' = [reqs EXCEPT ![r] = [req EXCEPT !.pc = "login_lookup"]]
    /\ UNCHANGED <<users, items, itemSeq, issued, now, ticks, secret, alive>>

\* Mutant: an unknown username is answered 404 "User not found"
LoginLookupNotFound(r) ==
    /\ alive
    /\ reqs[r].pc = "login_lookup"
    /\ LET hits == SelectSeq(users, LAMBDA u : u.username = reqs[r].body.username.val)
       IN IF hits = <<>>
          THEN reqs' = [reqs EXCEPT ![r].pc = "done",
                                    ![r].res = [status |-> 404,
                                                body |-> [message |-> "User not found"]]]
          ELSE reqs' = [reqs EXCEPT ![r].pc = "login_compare", ![r].local = Head(hits)]
    /\ UNCHANGED <<users, items, itemSeq, issued, now, ticks, secret, alive>>

\* the lookup of the user and the 400 of an unknown username
LoginLookup(r) ==
    /\ alive
    /\ reqs[r].pc = "login_lookup"
    /\ LET user == FindUserByUsername(reqs[r].body.username.val)
       IN IF user = Undefined
          THEN Respond(r, 400, Message("Invalid credentials"))
          ELSE reqs' = [reqs EXCEPT ![r].pc = "login_compare", ![r].local = user]
    /\ UNCHANGED <<users, items, itemSeq, issued, now, ticks, secret, alive>>

\* Mutant: the token is signed without the password having been compared
LoginCompareSkipped(r) ==
    /\ alive
    /\ reqs[r].pc = "login_compare"
    /\ LET user == reqs[r].local
       IN IF secret = Undefined
          THEN /\ reqs' = [reqs EXCEPT ![r].pc = "failed"]
               /\ alive' = alive
               /\ issued' = issued
          ELSE LET payload == [ userId |-> user.id, username |-> user.username,
                                iat |-> now, exp |-> now + Hour ]
                   token == [kind |-> "jwt", payload |-> payload,
                             sig |-> [key |-> secret, over |-> payload]]
               IN /\ reqs' = [reqs EXCEPT ![r].pc = "done",
                                          ![r].res = [status |-> 200,
                                                      body |-> [token |-> token]]]
                  /\ issued' = issued \cup {token}
                  /\ alive' = alive
    /\ UNCHANGED <<users, items, itemSeq, now, ticks, secret>>

\* bcrypt.compare, the 400 of a mismatch, jwt.sign and the 200
LoginCompare(r) ==
    /\ alive
    /\ reqs[r].pc = "login_compare"
    /\ LET user == reqs[r].local
           passwordMatch == bcryptCompare(reqs[r].body.password.val, user.password)
       IN IF ~passwordMatch
          THEN /\ Respond(r, 400, Message("Invalid credentials"))
               /\ UNCHANGED <<issued, alive>>
          ELSE IF secret = Undefined
          THEN \* jwt.sign throws: secretOrPrivateKey must have a value
               /\ Rejected(r)
               /\ issued' = issued
          ELSE LET token == jwtSign(user.id, user.username, secret, now)
               IN /\ Respond(r, 200, [token |-> token])
                  /\ issued' = issued \cup {token}
                  /\ alive' = alive
    /\ UNCHANGED <<users, items, itemSeq, now, ticks, secret>>

----------------------------------------------------------------------------
(* The gate: app.use(authenticateToken), in front of all routes below it *)

ReadRoutes == { "GET /users", "GET /profile" }
ItemRoutes ==
    { "GET /items", "GET /items/:id", "POST /items", "PUT /items/:id",
      "DELETE /items/:id" }
GatedRoutes == ReadRoutes \cup ItemRoutes

\* The bodies and the :id parameters clients send to a gated route
BodiesOf(route) ==
    IF route \in {"POST /items", "PUT /items/:id"} THEN ItemBodies ELSE {Undefined}
ParamsOf(route) ==
    IF route \in {"GET /items/:id", "PUT /items/:id", "DELETE /items/:id"}
    THEN ItemIds ELSE {0}

\* The tokens login handed out so far
IssuedTokens == issued

\* A token with one field of its payload changed and its signature kept
Tampered(token) ==
    { [token EXCEPT !.payload.userId = @ + 1],
      [token EXCEPT !.payload.username = IF @ = "alice" THEN "bob" ELSE "alice"],
      [token EXCEPT !.payload.iat = @ + 1],
      [token EXCEPT !.payload.exp = @ + Hour] }

\* What a client can put after "Bearer ": a token it was given, a changed
\* one, one signed with a key of its own, or something that is no token
ClientTokens ==
    IssuedTokens
        \cup UNION { Tampered(t) : t \in IssuedTokens }
        \cup { jwtSign(1, "alice", AttackerSecret, 0), Garbage }

ClientHeaders ==
    { Undefined, HeaderValue("Bearer ", Empty) }
        \cup { HeaderValue("Bearer ", t) : t \in ClientTokens }
        \cup { HeaderValue("", t) : t \in IssuedTokens }

\* Mutant: the gate keeps sessions, a later login of the user ends the
\* sessions of the user's earlier tokens
authenticateTokenSessions(r, routes) ==
    /\ alive
    /\ reqs[r].pc = "idle"
    /\ IF r = 1 THEN TRUE ELSE reqs[r - 1].pc # "idle"
    /\ \E route \in routes, header \in ClientHeaders :
       \E body \in BodiesOf(route), id \in ParamsOf(route) :
          LET req == [IdleReq EXCEPT !.pc = "received", !.route = route,
                                     !.body = body, !.header = header,
                                     !.param = id,
                                     !.after = { q \in ReqIds : reqs[q].pc \in {"done", "failed"} }]
              token == IF header = Undefined THEN Undefined ELSE header.cred
          IN IF token = Undefined \/ token = [kind |-> "empty"]
             THEN reqs' = [reqs EXCEPT ![r] =
                            [req EXCEPT !.pc = "done",
                                        !.res = [status |-> 401,
                                                 body |-> [message |-> "Access denied, token missing"]]]]
             ELSE LET verified == jwtVerify(token, secret, now)
                      ended == /\ verified.err = ""
                               /\ \E t \in issued :
                                     /\ t.payload.userId = token.payload.userId
                                     /\ t.payload.iat > token.payload.iat
                  IN IF verified.err # "" \/ ended
                     THEN reqs' = [reqs EXCEPT ![r] =
                                    [req EXCEPT !.pc = "done", !.err = verified.err,
                                                !.res = [status |-> 403,
                                                         body |-> [message |-> "Invalid token"]]]]
                     ELSE reqs' = [reqs EXCEPT ![r] =
                                    [req EXCEPT !.pc = "handler", !.user = verified.user]]
    /\ UNCHANGED <<users, items, itemSeq, issued, now, ticks, secret, alive>>

\* A request for one of `routes` arrives and runs into the gate
authenticateToken(r, routes) ==
    /\ alive
    /\ Fresh(r)
    /\ \E route \in routes, header \in ClientHeaders :
       \E body \in BodiesOf(route), id \in ParamsOf(route) :
          LET req == [Request(route, body, header, id) EXCEPT !.after = Ended]
              token == BearerToken(header)
          IN IF Falsy(token)
             THEN reqs' = [reqs EXCEPT ![r] =
                            Responded(req, 401, Message("Access denied, token missing"))]
             ELSE LET verified == jwtVerify(token, secret, now)
                  IN IF verified.err # ""
                     THEN reqs' = [reqs EXCEPT ![r] =
                                    Responded([req EXCEPT !.err = verified.err],
                                              403, Message("Invalid token"))]
                     ELSE reqs' = [reqs EXCEPT ![r] =
                                    [req EXCEPT !.pc = "handler", !.user = verified.user]]
    /\ UNCHANGED <<users, items, itemSeq, issued, now, ticks, secret, alive>>

\* Mutant: the route is registered above app.use(authenticateToken)
GetUsersBeforeGate(r) ==
    /\ alive
    /\ reqs[r].pc = "idle"
    /\ IF r = 1 THEN TRUE ELSE reqs[r - 1].pc # "idle"
    /\ \E header \in ClientHeaders :
          reqs' = [reqs EXCEPT ![r] =
                     [IdleReq EXCEPT
                        !.pc = "done", !.route = "GET /users", !.header = header,
                        !.res = [status |-> 200,
                                 body |-> [rows |-> [i \in 1..Len(users) |->
                                    [id |-> users[i].id, username |-> users[i].username]]]]]]
    /\ UNCHANGED <<users, items, itemSeq, issued, now, ticks, secret, alive>>

\* app.get("/users")
GetUsers(r) ==
    /\ alive
    /\ reqs[r].pc = "handler"
    /\ reqs[r].route = "GET /users"
    /\ Respond(r, 200, [rows |-> [i \in 1..Len(users) |->
                                    [id |-> users[i].id, username |-> users[i].username]]])
    /\ UNCHANGED <<users, items, itemSeq, issued, now, ticks, secret, alive>>

\* Mutant: the handler sends the row it found
GetProfileWholeRow(r) ==
    /\ alive
    /\ reqs[r].pc = "handler"
    /\ reqs[r].route = "GET /profile"
    /\ LET hits == SelectSeq(users, LAMBDA u : u.id = reqs[r].user.userId)
       IN IF hits # <<>>
          THEN reqs' = [reqs EXCEPT ![r].pc = "done",
                                    ![r].res = [status |-> 200, body |-> Head(hits)]]
          ELSE reqs' = [reqs EXCEPT ![r].pc = "done",
                                    ![r].res = [status |-> 404,
                                                body |-> [message |-> "User not found"]]]
    /\ UNCHANGED <<users, items, itemSeq, issued, now, ticks, secret, alive>>

\* app.get("/profile")
GetProfile(r) ==
    /\ alive
    /\ reqs[r].pc = "handler"
    /\ reqs[r].route = "GET /profile"
    /\ LET userId == reqs[r].user.userId
           user == FindUserById(userId)
       IN IF user # Undefined
          THEN Respond(r, 200, [username |-> user.username])
          ELSE Respond(r, 404, Message("User not found"))
    /\ UNCHANGED <<users, items, itemSeq, issued, now, ticks, secret, alive>>

----------------------------------------------------------------------------
(* The items routes *)

\* app.get("/items")
GetItems(r) ==
    /\ alive
    /\ reqs[r].pc = "handler"
    /\ reqs[r].route = "GET /items"
    /\ Respond(r, 200, [rows |-> items])
    /\ UNCHANGED <<users, items, itemSeq, issued, now, ticks, secret, alive>>

\* app.get("/items/:id")
GetItem(r) ==
    /\ alive
    /\ reqs[r].pc = "handler"
    /\ reqs[r].route = "GET /items/:id"
    /\ LET item == FindItem(reqs[r].param)
       IN IF item # Undefined
          THEN Respond(r, 200, item)
          ELSE Respond(r, 404, Message("Item not found"))
    /\ UNCHANGED <<users, items, itemSeq, issued, now, ticks, secret, alive>>

\* app.post("/items")
PostItem(r) ==
    /\ alive
    /\ reqs[r].pc = "handler"
    /\ reqs[r].route = "POST /items"
    /\ LET parsed == itemSchema(reqs[r].body)
       IN IF ~parsed.success
          THEN /\ Respond(r, 400, ValidationErrors)
               /\ UNCHANGED <<items, itemSeq>>
          ELSE /\ items' = InsertItem(parsed.data.name.val, parsed.data.description)
               /\ itemSeq' = itemSeq + 1
               /\ Respond(r, 201, [ id |-> itemSeq + 1,
                                    name |-> parsed.data.name.val,
                                    description |-> parsed.data.description ])
    /\ UNCHANGED <<users, issued, now, ticks, secret, alive>>

\* app.put("/items/:id") up to its lookup
PutItemLookup(r) ==
    /\ alive
    /\ reqs[r].pc = "handler"
    /\ reqs[r].route = "PUT /items/:id"
    /\ LET parsed == itemSchema(reqs[r].body)
       IN IF ~parsed.success
          THEN Respond(r, 400, ValidationErrors)
          ELSE IF FindItem(reqs[r].param) = Undefined
          THEN Respond(r, 404, Message("Item not found"))
          ELSE reqs' = [reqs EXCEPT ![r].pc = "put_update"]
    /\ UNCHANGED <<users, items, itemSeq, issued, now, ticks, secret, alive>>

\* app.put("/items/:id"): the update and the 200
PutItemUpdate(r) ==
    /\ alive
    /\ reqs[r].pc = "put_update"
    /\ LET id == reqs[r].param
           name == reqs[r].body.name.val
           description == reqs[r].body.description
       IN /\ items' = UpdateItem(id, name, description)
          /\ Respond(r, 200, [id |-> id, name |-> name, description |-> description])
    /\ UNCHANGED <<users, itemSeq, issued, now, ticks, secret, alive>>

\* app.delete("/items/:id") up to its lookup
DeleteItemLookup(r) ==
    /\ alive
    /\ reqs[r].pc = "handler"
    /\ reqs[r].route = "DELETE /items/:id"
    /\ IF FindItem(reqs[r].param) = Undefined
       THEN Respond(r, 404, Message("Item not found"))
       ELSE reqs' = [reqs EXCEPT ![r].pc = "delete_del"]
    /\ UNCHANGED <<users, items, itemSeq, issued, now, ticks, secret, alive>>

\* app.delete("/items/:id"): the delete and the 200
DeleteItem(r) ==
    /\ alive
    /\ reqs[r].pc = "delete_del"
    /\ items' = DeleteItemRows(reqs[r].param)
    /\ Respond(r, 200, Message("Item deleted"))
    /\ UNCHANGED <<users, itemSeq, issued, now, ticks, secret, alive>>

----------------------------------------------------------------------------
(* The clock *)

Tick ==
    /\ alive
    /\ ticks < MaxTicks
    /\ \E d \in {Hour - 1, Hour} : now' = now + d
    /\ ticks' = ticks + 1
    /\ UNCHANGED <<users, items, itemSeq, reqs, issued, secret, alive>>

----------------------------------------------------------------------------

Init ==
    /\ users = <<>>
    /\ items = <<>>
    /\ itemSeq = 0
    /\ reqs = [r \in ReqIds |-> IdleReq]
    /\ issued = {}
    /\ now = 0
    /\ ticks = 0
    /\ secret \in {ServerSecret, Undefined}
    /\ alive = TRUE

NextRegister ==
    \E r \in ReqIds :
        \/ RegisterValidate(r)
        \/ RegisterLookup(r)
        \/ RegisterHash(r)
        \/ RegisterInsert(r)

SpecRegister == Init /\ [][NextRegister]_vars

NextAuth ==
    \/ \E r \in ReqIds :
          \/ RegisterValidate(r)
          \/ RegisterLookup(r)
          \/ RegisterHash(r)
          \/ RegisterInsert(r)
          \/ LoginValidate(r)
          \/ LoginLookup(r)
          \/ LoginCompare(r)
          \/ authenticateToken(r, ReadRoutes)
          \/ GetUsers(r)
          \/ GetProfile(r)
    \/ Tick

(* A state the service reaches from Init when the secret is configured:    *)
(* alice registered and logged in and added an item, and the client still  *)
(* holds the token a second after the login.  The requests that led here   *)
(* are no longer tracked, so that MaxReqs further requests can follow.     *)
InitLoggedIn ==
    /\ users = << [ id |-> 1, username |-> "alice",
                    password |-> bcryptHash("secret1", 1) ] >>
    /\ items = << [id |-> 1, name |-> "pen", description |-> Str("blue")] >>
    /\ itemSeq = 1
    /\ reqs = [r \in ReqIds |-> IdleReq]
    /\ issued = { jwtSign(1, "alice", ServerSecret, 0) }
    /\ now = 1
    /\ ticks = 0
    /\ secret = ServerSecret
    /\ alive = TRUE

SpecAuth == (Init \/ InitLoggedIn) /\ [][NextAuth]_vars

Next ==
    \/ \E r \in ReqIds :
          \/ RegisterValidate(r)
          \/ RegisterLookup(r)
          \/ RegisterHash(r)
          \/ RegisterInsert(r)
          \/ LoginValidate(r)
          \/ LoginLookup(r)
          \/ LoginCompare(r)
          \/ authenticateToken(r, GatedRoutes)
          \/ GetUsers(r)
          \/ GetProfile(r)
          \/ GetItems(r)
          \/ GetItem(r)
          \/ PostItem(r)
          \/ PutItemLookup(r)
          \/ PutItemUpdate(r)
          \/ DeleteItemLookup(r)
          \/ DeleteItem(r)
    \/ Tick

Spec == (Init \/ InitLoggedIn) /\ [][Next]_vars

----------------------------------------------------------------------------
(* What the properties below speak of *)

IsRegister(r) == reqs[r].route = "POST /register"
IsLogin(r) == reqs[r].route = "POST /login"
IsGated(r) == reqs[r].route \in GatedRoutes
HasEnded(r) == reqs[r].pc \in {"done", "failed"}

\* The body passes the validation of /register and /login
ValidBody(r) ==
    /\ IsString(reqs[r].body.username) /\ Len(reqs[r].body.username.val) >= 1
    /\ IsString(reqs[r].body.password) /\ Len(reqs[r].body.password.val) >= 6

\* A valid registration of username u
Registers(r, u) == IsRegister(r) /\ ValidBody(r) /\ reqs[r].body.username.val = u

\* The rows of table users that hold username u
RowsOf(u) == { i \in 1..Len(users) : users[i].username = u }

\* The usernames that appear in requests or rows
SeenUsernames ==
    { reqs[r].body.username.val : r \in { q \in ReqIds : IsRegister(q) /\ ValidBody(q) } }
        \cup { users[i].username : i \in 1..Len(users) }

\* Request q arrived when the handler of request r had ended
StartedAfter(q, r) == r \in reqs[q].after

----------------------------------------------------------------------------
(* C1: of the registrations of one username, whatever their passwords and  *)
(* however their lookups, hashes and inserts interleave, at most one is    *)
(* answered 201 and at most one row with the username is inserted; a       *)
(* registration of a username no other registration names, once its        *)
(* handler has ended, was answered 201.                                    *)
C1_AtMostOneRegistration ==
    /\ \A u \in SeenUsernames :
          /\ Cardinality({ r \in ReqIds : Registers(r, u) /\ reqs[r].res.status = 201 }) <= 1
          /\ Cardinality(RowsOf(u)) <= 1
    /\ \A r \in ReqIds :
          (/\ IsRegister(r) /\ ValidBody(r) /\ HasEnded(r)
           /\ \A q \in ReqIds \ {r} : ~Registers(q, reqs[r].body.username.val))
          => reqs[r].res.status = 201

\* Two registrations of one username with different passwords both passed
\* the lookup; one was answered 201 and the insert of the other was refused
C1_Witness ==
    \E r, q \in ReqIds :
        /\ r # q
        /\ IsRegister(r) /\ IsRegister(q)
        /\ ValidBody(r) /\ ValidBody(q)
        /\ reqs[r].body.username = reqs[q].body.username
        /\ reqs[r].body.password # reqs[q].body.password
        /\ reqs[r].res.status = 201
        /\ reqs[q].pc = "failed"
        /\ Len(users) = 1

(* C2: no two rows of table users hold the same username.                  *)
C2_UsernamesUnique ==
    \A i, j \in 1..Len(users) : users[i].username = users[j].username => i = j

\* The table holds two users and the store has refused a second row for
\* one of them
C2_Witness ==
    /\ Len(users) >= 2
    /\ \E r \in ReqIds :
          /\ IsRegister(r)
          /\ reqs[r].pc = "failed"
          /\ RowsOf(reqs[r].body.username.val) # {}

(* C3: every registration whose handler has ended was answered, with 201   *)
(* or with 400, and the process is still running.                          *)
C3_RegisterAnswered201Or400 ==
    /\ alive
    /\ \A r \in ReqIds :
          (IsRegister(r) /\ HasEnded(r)) => reqs[r].res.status \in {201, 400}

(* C4: of two valid registrations of one username, the second arriving     *)
(* after the first was answered: the first is answered 201 when no other   *)
(* registration names the username, and the second is answered 400         *)
(* "Username already taken" and adds no row, whatever the passwords.       *)
C4_SecondRegistrationRejected ==
    \A r, q \in ReqIds :
        (/\ r # q
         /\ Registers(r, reqs[r].body.username.val)
         /\ Registers(q, reqs[r].body.username.val)
         /\ StartedAfter(q, r)
         /\ HasEnded(q)
         /\ \A o \in ReqIds \ {r, q} : ~Registers(o, reqs[r].body.username.val))
        => /\ reqs[r].res = Response(201, Message("User registered successfully"))
           /\ reqs[q].res = Response(400, Message("Username already taken"))
           /\ Cardinality(RowsOf(reqs[r].body.username.val)) = 1

\* The second registration, with another password, was answered 400
C4_Witness ==
    \E r, q \in ReqIds :
        /\ Registers(r, "alice") /\ Registers(q, "alice")
        /\ StartedAfter(q, r)
        /\ reqs[r].body.password # reqs[q].body.password
        /\ reqs[r].res.status = 201
        /\ reqs[q].res.status = 400
        /\ Len(users) = 1

----------------------------------------------------------------------------
(* What the properties of the gate speak of *)

\* What request r presented after "Bearer "
TokenOf(r) == IF reqs[r].header = Undefined THEN Undefined ELSE reqs[r].header.cred

\* Request r presented no token: no header, or nothing after "Bearer "
NoToken(r) == reqs[r].header = Undefined \/ reqs[r].header.cred.kind = "empty"

\* Token t carries the signature of its own payload under the secret of
\* this process
ValidlySigned(t) ==
    /\ t.kind = "jwt"
    /\ secret # Undefined
    /\ t.sig = [key |-> secret, over |-> t.payload]

\* The handler behind the gate was invoked for request r
PassedGate(r) ==
    \/ reqs[r].pc \in {"handler", "put_update", "delete_del"}
    \/ reqs[r].pc = "done" /\ reqs[r].res.status \notin {401, 403}

Answered401 == Response(401, Message("Access denied, token missing"))
Answered403 == Response(403, Message("Invalid token"))

\* Request r arrives in this step
Arrives(r) == reqs[r].pc = "idle" /\ reqs'[r].pc # "idle"

(* C5: a request to a gated route that presents no token is answered 401   *)
(* and one whose token fails verification (signature or expiry) is         *)
(* answered 403, neither reaching the handler; the handler is invoked      *)
(* only for a token that verified, with the token's userId and username    *)
(* attached to the request.                                                *)
C5_GateAdmitsOnlyVerified ==
    /\ [](\A r \in ReqIds :
            (IsGated(r) /\ reqs[r].pc # "idle") =>
                /\ NoToken(r) =>
                      /\ reqs[r].pc = "done" /\ reqs[r].res = Answered401
                      /\ reqs[r].user = Undefined
                /\ (~NoToken(r) /\ ~ValidlySigned(TokenOf(r))) =>
                      /\ reqs[r].pc = "done" /\ reqs[r].res = Answered403
                      /\ reqs[r].user = Undefined
                /\ (reqs[r].res = Answered403) => reqs[r].user = Undefined
                /\ PassedGate(r) =>
                      /\ ~NoToken(r)
                      /\ ValidlySigned(TokenOf(r))
                      /\ reqs[r].user.userId = TokenOf(r).payload.userId
                      /\ reqs[r].user.username = TokenOf(r).payload.username)
    /\ [][\A r \in ReqIds :
            (/\ Arrives(r)
             /\ reqs'[r].route \in GatedRoutes
             /\ reqs'[r].header # Undefined
             /\ ValidlySigned(reqs'[r].header.cred))
            => IF now < reqs'[r].header.cred.payload.exp
               THEN reqs'[r].pc = "handler"
               ELSE reqs'[r].pc = "done" /\ reqs'[r].res = Answered403]_vars

\* One request passed the gate, another presented the same validly signed
\* token after its expiry and was answered 403
C5_Witness ==
    \E r, q \in ReqIds :
        /\ IsGated(r) /\ IsGated(q)
        /\ PassedGate(r) /\ reqs[r].pc = "done"
        /\ TokenOf(q) = TokenOf(r)
        /\ now >= TokenOf(q).payload.exp
        /\ reqs[q].res = Answered403

(* C6: a request to one of the seven routes behind the gate that did not   *)
(* pass it gets nothing but the gate's 401 or 403, and every change of the *)
(* items table is the step of a request that passed the gate; register     *)
(* and login requests carry no token and are never answered by the gate.   *)
C6_GateInFrontOfAllButRegisterAndLogin ==
    /\ [](\A r \in ReqIds :
            /\ (IsGated(r) /\ reqs[r].pc # "idle" /\ reqs[r].user = Undefined)
                  => /\ reqs[r].pc = "done"
                     /\ reqs[r].res \in {Answered401, Answered403}
            /\ (IsRegister(r) \/ IsLogin(r))
                  => /\ reqs[r].header = Undefined
                     /\ reqs[r].res.status \notin {401, 403})
    /\ [][(items' # items \/ itemSeq' # itemSeq) =>
            \E r \in ReqIds :
                /\ reqs[r].route \in ItemRoutes
                /\ reqs[r].user # Undefined
                /\ ValidlySigned(TokenOf(r))
                /\ reqs'[r] # reqs[r]]_vars

\* A login was answered 200 without a token and a request that passed the
\* gate added an item
C6_Witness ==
    \E r, q \in ReqIds :
        /\ IsLogin(r) /\ reqs[r].header = Undefined /\ reqs[r].res.status = 200
        /\ reqs[q].route = "POST /items" /\ reqs[q].res.status = 201
        /\ reqs[q].user # Undefined

(* C7: a login with the credentials of a registration that was answered    *)
(* 201 before it arrived is answered 200 with a token, and every gated     *)
(* request that presents this token before its expiry passes the gate.     *)
C7_RegisterThenLoginThenGate ==
    \A r, q \in ReqIds :
        (/\ IsRegister(r) /\ reqs[r].res.status = 201
         /\ IsLogin(q) /\ reqs[q].body = reqs[r].body
         /\ StartedAfter(q, r)
         /\ HasEnded(q))
        => /\ reqs[q].res.status = 200
           /\ \A g \in ReqIds :
                 (/\ IsGated(g) /\ reqs[g].pc # "idle"
                  /\ TokenOf(g) = reqs[q].res.body.token
                  /\ now < reqs[q].res.body.token.payload.exp)
                 => PassedGate(g)

\* A login of a username that is in no row, or with a password that is not
\* the one the row's digest was computed from
UnknownUser(q) ==
    /\ IsLogin(q) /\ ValidBody(q) /\ reqs[q].pc = "done"
    /\ RowsOf(reqs[q].body.username.val) = {}
WrongPassword(r) ==
    /\ IsLogin(r) /\ ValidBody(r) /\ reqs[r].pc = "done"
    /\ \E i \in RowsOf(reqs[r].body.username.val) :
          users[i].password.digest # <<users[i].password.salt, reqs[r].body.password.val>>

(* C8: a login with a registered username and a wrong password and a login *)
(* with a username that is not registered get the same response, status    *)
(* 400 with message "Invalid credentials", which carries no token.         *)
C8_InvalidCredentialsIndistinguishable ==
    \A r, q \in ReqIds :
        /\ WrongPassword(r) => reqs[r].res = Response(400, Message("Invalid credentials"))
        /\ UnknownUser(q) => reqs[q].res = Response(400, Message("Invalid credentials"))
        /\ (WrongPassword(r) /\ UnknownUser(q)) => reqs[r].res = reqs[q].res

\* Both kinds of failed login happened
C8_Witness ==
    \E r, q \in ReqIds :
        /\ WrongPassword(r) /\ UnknownUser(q)
        /\ reqs[r].body.username.val = "alice" /\ reqs[q].body.username.val = "bob"

(* C9: a gated request that presents the token a login was answered with  *)
(* has passed the gate as long as the token's hour has not elapsed, and    *)
(* the identity attached to a request that passed with it is the id and    *)
(* username of the user row the login found.                               *)
C9_TokenResolvesToIssuedIdentity ==
    \A l, g \in ReqIds :
        (/\ IsLogin(l) /\ reqs[l].res.status = 200
         /\ IsGated(g) /\ reqs[g].pc # "idle"
         /\ TokenOf(g) = reqs[l].res.body.token)
        => /\ now < reqs[l].res.body.token.payload.iat + Hour => PassedGate(g)
           /\ PassedGate(g) =>
                 /\ reqs[g].user.userId = reqs[l].local.id
                 /\ reqs[g].user.username = reqs[l].local.username
                 /\ reqs[l].local.username = reqs[l].body.username.val
                 /\ \E i \in 1..Len(users) :
                       /\ users[i].id = reqs[g].user.userId
                       /\ users[i].username = reqs[g].user.username

\* A token a login issued was presented and resolved to the user
C9_Witness ==
    \E l, g \in ReqIds :
        /\ IsLogin(l) /\ reqs[l].res.status = 200
        /\ reqs[g].route = "GET /profile"
        /\ TokenOf(g) = reqs[l].res.body.token
        /\ reqs[g].user # Undefined
        /\ reqs[g].user.userId = 1
        /\ reqs[g].res.status = 200

\* Token t carries the signature of an issued token over another payload
Altered(t) ==
    /\ t.kind = "jwt"
    /\ \E t0 \in issued : t.sig = t0.sig /\ t.payload # t0.payload

(* C10: a gated request that presents an issued token with a changed       *)
(* payload (userId, username, iat or exp) and the original signature fails *)
(* verification with "invalid signature", is answered 403 and never        *)
(* reaches the handler.                                                    *)
C10_AlteredPayloadRejected ==
    \A g \in ReqIds :
        (IsGated(g) /\ reqs[g].pc # "idle" /\ Altered(TokenOf(g)))
        => /\ reqs[g].pc = "done"
           /\ reqs[g].res = Answered403
           /\ reqs[g].err = "JsonWebTokenError: invalid signature"
           /\ reqs[g].user = Undefined

\* A token whose expiry was moved an hour on was presented and refused
C10_Witness ==
    \E g \in ReqIds :
        /\ IsGated(g) /\ Altered(TokenOf(g))
        /\ \E t0 \in issued :
              /\ TokenOf(g).sig = t0.sig
              /\ TokenOf(g).payload = [t0.payload EXCEPT !.exp = @ + Hour]
        /\ reqs[g].res = Answered403

----------------------------------------------------------------------------
\* Request r arrives in this step at a gated route and presents token t
Presents(r, t) ==
    /\ Arrives(r)
    /\ reqs'[r].route \in GatedRoutes
    /\ reqs'[r].header # Undefined
    /\ reqs'[r].header.cred = t

\* The gate let request r through to its handler in this step
Admitted(r) == reqs'[r].pc = "handler" /\ reqs'[r].user # Undefined

\* The gate answered request r with 403 in this step, jwt.verify having
\* called back with error e
Refused(r, e) ==
    /\ reqs'[r].pc = "done"
    /\ reqs'[r].res = Answered403
    /\ reqs'[r].err = e
    /\ reqs'[r].user = Undefined

(* C11: a token login issued expires exactly one hour after it was issued: *)
(* a gated request that presents it at any time before iat + 1h is let     *)
(* through, and one that presents it after iat + 1h is refused with        *)
(* "jwt expired".                                                          *)
C11_ValidityWindowOneHour ==
    [][\A r \in ReqIds : \A t \in issued :
          Presents(r, t) =>
              /\ t.payload.exp = t.payload.iat + Hour
              /\ now < t.payload.iat + Hour => Admitted(r)
              /\ now > t.payload.iat + Hour
                    => Refused(r, "TokenExpiredError: jwt expired")]_vars

\* The same issued token was let through for one request and, presented
\* more than an hour after its issuance, refused as expired for another
C11_Witness ==
    \E r, q \in ReqIds : \E t \in issued :
        /\ IsGated(r) /\ IsGated(q)
        /\ TokenOf(r) = t /\ TokenOf(q) = t
        /\ reqs[r].user # Undefined
        /\ reqs[q].res = Answered403
        /\ reqs[q].err = "TokenExpiredError: jwt expired"
        /\ now > t.payload.iat + Hour

----------------------------------------------------------------------------
\* Token t has the form of a token but not the signature of its payload
\* under the secret of this process
Forged(t) == t.kind = "jwt" /\ ~ValidlySigned(t)

(* C12: the signature is checked before the expiry and the two failures    *)
(* are kept apart.  A gated request whose token does not carry the         *)
(* signature of its payload is refused with a JsonWebTokenError, which is  *)
(* "invalid signature" when the process has a secret, also when the token  *)
(* has expired; a request whose validly signed token has expired is        *)
(* refused with the TokenExpiredError "jwt expired", and only such a       *)
(* request is.                                                             *)
C12_SignatureBeforeExpiry ==
    /\ [](\A g \in ReqIds :
            (IsGated(g) /\ reqs[g].pc # "idle" /\ ~NoToken(g)) =>
                /\ Forged(TokenOf(g)) =>
                      /\ reqs[g].res = Answered403
                      /\ reqs[g].err # "TokenExpiredError: jwt expired"
                      /\ reqs[g].err \in
                            { "JsonWebTokenError: invalid signature",
                              "JsonWebTokenError: secret or public key must be provided" }
                      /\ secret # Undefined
                            => reqs[g].err = "JsonWebTokenError: invalid signature"
                /\ reqs[g].err = "TokenExpiredError: jwt expired" =>
                      /\ ValidlySigned(TokenOf(g))
                      /\ reqs[g].res = Answered403
                      /\ now >= TokenOf(g).payload.exp)
    /\ [][\A r \in ReqIds : \A t \in ClientTokens :
            (Presents(r, t) /\ t.kind = "jwt" /\ now >= t.payload.exp) =>
                IF ValidlySigned(t)
                THEN Refused(r, "TokenExpiredError: jwt expired")
                ELSE /\ reqs'[r].res = Answered403
                     /\ reqs'[r].err # "TokenExpiredError: jwt expired"]_vars

\* A validly signed token was refused as expired, and a token signed with
\* another key, presented later and itself past its expiry, was refused
\* for its signature
C12_Witness ==
    /\ IsGated(1) /\ ValidlySigned(TokenOf(1))
    /\ reqs[1].err = "TokenExpiredError: jwt expired"
    /\ IsGated(2) /\ Forged(TokenOf(2))
    /\ TokenOf(2).payload.exp <= TokenOf(1).payload.exp
    /\ reqs[2].err = "JsonWebTokenError: invalid signature"
    /\ reqs[1].res = reqs[2].res

----------------------------------------------------------------------------
(* C13: a process whose configuration holds no signing secret does not     *)
(* start: it never accepts a request, so that no login and no gated        *)
(* request ever fails for the missing secret.                              *)
C13_MissingSecretFatalAtStartup ==
    secret = Undefined =>
        /\ \A r \in ReqIds : reqs[r].pc = "idle"
        /\ users = <<>>

----------------------------------------------------------------------------
\* The steps of the handlers of /login and /register: from which position
\* to which a request moves in one step
LoginOrder ==
    { <<"idle", "login_lookup">>, <<"idle", "done">>,
      <<"login_lookup", "login_compare">>, <<"login_lookup", "done">>,
      <<"login_compare", "done">>, <<"login_compare", "failed">> }
RegisterOrder ==
    { <<"idle", "register_lookup">>, <<"idle", "done">>,
      <<"register_lookup", "register_hash">>, <<"register_lookup", "done">>,
      <<"register_hash", "register_insert">>,
      <<"register_insert", "done">>, <<"register_insert", "failed">> }

\* Request r stands behind the validation of its handler
Validated(r) ==
    reqs[r].pc \in { "login_lookup", "login_compare", "register_lookup",
                     "register_hash", "register_insert" }

(* C14: a login request is validated, then its user is looked up, then the *)
(* password is compared, then the token is issued.  A request stands       *)
(* behind the validation, or holds a user row, only if its body is valid;  *)
(* a login is answered with a token only if it holds the row of its        *)
(* username and its password is the one the row's digest was computed      *)
(* from; a request moves only forward through these steps, a request that  *)
(* was answered or failed never moves again, and a row is added to the     *)
(* users table only by a validated register request at its insert.         *)
C14_StepOrder ==
    /\ [](\A r \in ReqIds :
            (IsLogin(r) \/ IsRegister(r)) =>
                /\ (Validated(r) \/ reqs[r].local # Undefined) => ValidBody(r)
                /\ (IsLogin(r) /\ reqs[r].pc = "login_compare")
                      => reqs[r].local # Undefined
                /\ (IsLogin(r) /\ reqs[r].res.status = 200) =>
                      /\ reqs[r].local # Undefined
                      /\ reqs[r].local.username = reqs[r].body.username.val
                      /\ reqs[r].local.password.digest =
                            <<reqs[r].local.password.salt, reqs[r].body.password.val>>
                      /\ reqs[r].res.body.token \in issued
                /\ (IsLogin(r) /\ reqs[r].res.status # 200) =>
                      \A t \in issued : reqs[r].res.body # [token |-> t])
    /\ [][\A r \in ReqIds :
            /\ HasEnded(r) => reqs'[r] = reqs[r]
            /\ (reqs'[r].pc # reqs[r].pc /\ reqs'[r].route = "POST /login")
                  => <<reqs[r].pc, reqs'[r].pc>> \in LoginOrder
            /\ (reqs'[r].pc # reqs[r].pc /\ reqs'[r].route = "POST /register")
                  => <<reqs[r].pc, reqs'[r].pc>> \in RegisterOrder]_vars
    /\ [][(users' # users \/ issued' # issued) =>
            \E r \in ReqIds :
                /\ IsRegister(r) \/ IsLogin(r)
                /\ ValidBody(r)
                /\ reqs'[r].pc = "done"
                /\ \/ /\ reqs[r].pc = "register_insert" /\ issued' = issued
                   \/ /\ reqs[r].pc = "login_compare" /\ users' = users]_vars

\* A login went through all steps and was answered with a token, while
\* another was rejected at the comparison of the password
C14_Witness ==
    \E l, q \in ReqIds :
        /\ IsLogin(l) /\ reqs[l].res.status = 200 /\ reqs[l].local # Undefined
        /\ IsLogin(q) /\ reqs[q].pc = "done" /\ reqs[q].local # Undefined
        /\ reqs[q].res = Response(400, Message("Invalid credentials"))

----------------------------------------------------------------------------
\* The body request r arrives with in this step fails the validation of
\* /register and /login: the username is missing or empty, or the password
\* is missing or shorter than 6 characters
ArrivesInvalid(r) ==
    /\ Arrives(r)
    /\ reqs'[r].route \in {"POST /register", "POST /login"}
    /\ \/ reqs'[r].body.username.kind # "string"
       \/ reqs'[r].body.password.kind # "string"
       \/ Len(reqs'[r].body.username.val) < 1
       \/ Len(reqs'[r].body.password.val) < 6

(* C15: a register or login request whose username is missing or empty or  *)
(* whose password is missing or shorter than 6 characters is answered 400  *)
(* with the validation errors in the step in which it arrives, which       *)
(* leaves the users table as it is and looks up no user; such a request    *)
(* never holds a row, never gets a token and no row ever carries its       *)
(* username with its password.                                             *)
C15_InvalidBodyRejected ==
    /\ [](\A r \in ReqIds :
            ((IsRegister(r) \/ IsLogin(r)) /\ ~ValidBody(r)) =>
                /\ reqs[r].pc = "done"
                /\ reqs[r].res = Response(400, ValidationErrors)
                /\ reqs[r].local = Undefined)
    /\ [][\A r \in ReqIds :
            ArrivesInvalid(r) =>
                /\ reqs'[r].pc = "done"
                /\ reqs'[r].res = Response(400, ValidationErrors)
                /\ reqs'[r].local = Undefined
                /\ users' = users
                /\ issued' = issued]_vars
    /\ [](\A i \in 1..Len(users) :
            /\ Len(users[i].username) >= 1
            /\ Len(users[i].password.digest[2]) >= 6)

\* A registration with a password of five characters and a login without
\* username and password were answered 400, and no row was added
C15_Witness ==
    \E r, l \in ReqIds :
        /\ IsRegister(r) /\ reqs[r].body.password = Str("12345")
        /\ IsLogin(l) /\ reqs[l].body.username = Undefined
        /\ reqs[r].res = Response(400, ValidationErrors)
        /\ reqs[l].res = Response(400, ValidationErrors)
        /\ users = <<>>

----------------------------------------------------------------------------
(* C16: a token cannot be revoked.  The tokens login issued stay validly   *)
(* signed, the secret never changes, and in every state the service        *)
(* reaches, whatever the users and items tables hold and whatever requests *)
(* were processed, a gated request that presents an issued token before    *)
(* its expiry is let through with the identity of the token.               *)
C16_NoRevocation ==
    /\ [](\A t \in issued : ValidlySigned(t))
    /\ [][secret' = secret /\ issued \subseteq issued']_vars
    /\ [][\A r \in ReqIds : \A t \in issued :
            (Presents(r, t) /\ now < t.payload.exp) =>
                /\ Admitted(r)
                /\ reqs'[r].user.userId = t.payload.userId
                /\ reqs'[r].user.username = t.payload.username]_vars

\* After another user registered, or the user logged in again, or the
\* item was deleted, a request that presented the token issued before all
\* that was let through
C16_Witness ==
    \E q, g \in ReqIds : \E t \in issued :
        /\ q \in reqs[g].after
        /\ \/ IsRegister(q) /\ reqs[q].res.status = 201 /\ Len(users) = 2
           \/ IsLogin(q) /\ reqs[q].res.status = 200
                /\ reqs[q].res.body.token.payload.username = t.payload.username
           \/ reqs[q].route = "DELETE /items/:id" /\ reqs[q].res.status = 200
        /\ IsGated(g) /\ TokenOf(g) = t
        /\ t.payload.iat = 0
        /\ reqs[g].user # Undefined
        /\ reqs[g].user.userId = t.payload.userId

----------------------------------------------------------------------------
\* The plaintext passwords the service has seen: those the digests of the
\* rows were computed from and those of the request bodies
PlainPasswords ==
    { users[i].password.digest[2] : i \in 1..Len(users) }
        \cup { reqs[r].body.password.val :
                 r \in { q \in ReqIds : /\ IsRegister(q) \/ IsLogin(q)
                                        /\ reqs[q].body.password.kind = "string" } }

\* The usernames of the rows of table users
Usernames == { users[i].username : i \in 1..Len(users) }

\* The responses that carry a message or the validation errors only
PlainResponses ==
    { NoResponse,
      Response(400, ValidationErrors),
      Response(400, Message("Username already taken")),
      Response(400, Message("Invalid credentials")),
      Response(201, Message("User registered successfully")),
      Response(500, Message("Internal Server Error")),
      Answered401, Answered403,
      Response(404, Message("User not found")),
      Response(404, Message("Item not found")),
      Response(200, Message("Item deleted")) }

----------------------------------------------------------------------------
(* C18: GET /profile with a token login issued, presented within its       *)
(* validity window, is let through and answered 200 with the username of   *)
(* the user the token was issued for, who has a row with the id and the    *)
(* username of the token; no GET /profile that is let through is answered  *)
(* 404.  GET /profile without Authorization header is answered 401 and     *)
(* with a token that is not validly signed 403.                            *)
C18_ProfileOfTokenOwner ==
    \A g \in ReqIds :
        (reqs[g].route = "GET /profile" /\ reqs[g].pc # "idle") =>
            /\ reqs[g].header = Undefined => reqs[g].res = Answered401
            /\ (~NoToken(g) /\ ~ValidlySigned(TokenOf(g)))
                  => reqs[g].res = Answered403
            /\ (~NoToken(g) /\ TokenOf(g) \in issued) =>
                  /\ now < TokenOf(g).payload.exp => PassedGate(g)
                  /\ reqs[g].pc = "done" =>
                        \/ reqs[g].res = Answered403
                        \/ /\ reqs[g].res =
                                 Response(200, [username |-> TokenOf(g).payload.username])
                           /\ \E i \in 1..Len(users) :
                                 /\ users[i].id = TokenOf(g).payload.userId
                                 /\ users[i].username = reqs[g].res.body.username
                           /\ Cardinality(RowsOf(reqs[g].res.body.username)) = 1
            /\ reqs[g].res.status \in {0, 200, 401, 403}

\* With a second user registered, GET /profile with the token of the first
\* was answered with the first user's name
C18_Witness ==
    \E q, g \in ReqIds : \E t \in issued :
        /\ IsRegister(q) /\ reqs[q].res.status = 201 /\ q \in reqs[g].after
        /\ Len(users) = 2
        /\ reqs[g].route = "GET /profile" /\ TokenOf(g) = t
        /\ t.payload.userId = 1
        /\ reqs[g].res = Response(200, [username |-> "alice"])

----------------------------------------------------------------------------
(* C19: rows of table users are only ever added, one at a time, by the     *)
(* insert of a register request that is answered 201 in the same step.     *)
(* Every other step (a login, a register that is rejected or fails, the    *)
(* gate, the items routes, GET /users, GET /profile, the clock) leaves the *)
(* table as it is, and no step changes or removes an existing row: its id, *)
(* username and password hash stay what they were.                         *)
C19_UserRowsOnlyAdded ==
    /\ [][/\ Len(users') >= Len(users)
          /\ \A i \in 1..Len(users) : users'[i] = users[i]]_vars
    /\ [][users' # users =>
            /\ Len(users') = Len(users) + 1
            /\ \E r \in ReqIds :
                  /\ reqs[r].route = "POST /register"
                  /\ reqs[r].pc = "register_insert"
                  /\ reqs'[r].res = Response(201, Message("User registered successfully"))
                  /\ users'[Len(users')].username = reqs[r].body.username.val
                  /\ \A q \in ReqIds \ {r} : reqs'[q] = reqs[q]]_vars
    /\ [][\A r \in ReqIds :
            (reqs'[r].res.status = 201 /\ reqs[r].res.status # 201
             /\ reqs'[r].route = "POST /register")
            => Len(users') = Len(users) + 1]_vars

\* A registration added the row of a second user behind the first, whose
\* row is as it was, while a login was answered and the item was deleted
C19_Witness ==
    /\ Len(users) = 2
    /\ users[1] = [id |-> 1, username |-> "alice", password |-> bcryptHash("secret1", 1)]
    /\ users[2].id = 2
    /\ \E r \in ReqIds : IsRegister(r) /\ reqs[r].res.status = 201
    /\ \E q \in ReqIds :
          \/ IsLogin(q) /\ HasEnded(q)
          \/ reqs[q].route = "DELETE /items/:id" /\ reqs[q].res.status = 200

----------------------------------------------------------------------------
\* Request r, at one of `routes`, is answered in this step
Answers(r, routes) ==
    /\ reqs[r].route \in routes
    /\ reqs[r].pc # "done"
    /\ reqs'[r].pc = "done"

(* C20: when PUT /items/:id is answered 200 with {id, name, description},  *)
(* an item with that id was in the store when the update ran and holds the *)
(* name and the description afterwards; and when PUT with a valid body or  *)
(* DELETE is answered while no item with the id is in the store, the       *)
(* answer is 404 and the items table stays as it is.                       *)
C20_PutAndDeleteSeeTheItem ==
    [][\A r \in ReqIds :
          /\ (Answers(r, {"PUT /items/:id"}) /\ reqs'[r].res.status = 200) =>
                \E i \in 1..Len(items) :
                    /\ items[i].id = reqs[r].param
                    /\ i <= Len(items')
                    /\ items'[i].id = reqs'[r].res.body.id
                    /\ items'[i].name = reqs'[r].res.body.name
                    /\ reqs'[r].res.body.description # Undefined
                          => items'[i].description = reqs'[r].res.body.description
          /\ (/\ Answers(r, {"PUT /items/:id", "DELETE /items/:id"})
              /\ reqs'[r].res.status # 400
              /\ \A i \in 1..Len(items) : items[i].id # reqs[r].param)
                => /\ reqs'[r].res = Response(404, Message("Item not found"))
                   /\ items' = items]_vars

====
